---- MODULE Spec2Model ----
(***************************************************************************)
(* Market-series synchronization engine of the Gold OI Quant Analyzer:     *)
(* the React component App (src/App.tsx), the simulator                    *)
(* (src/unnamed/part_000, imported as services/marketData) and the two     *)
(* remote calls of src/services/geminiService.ts.                          *)
(*                                                                         *)
(* Numbers.  Prices and the simulator's running totals are fixed-point     *)
(* integers in thousandths (Scale units per 1.0), so that toFixed(2) and   *)
(* Math.floor are real conversions.  Math.random() is a value r / Scale    *)
(* with r drawn from a small set.  Time is Date.now() in milliseconds.     *)
(*                                                                         *)
(* Scheduling.  One step of the model is one task of the JavaScript event  *)
(* loop (a click or change handler together with the render and effects it *)
(* causes, a timer callback, or the continuation of an await).  A promise  *)
(* that is already rejected when it is awaited continues in a microtask,   *)
(* before any other task: MicrotaskPending blocks every other step.        *)
(***************************************************************************)
EXTENDS Integers, Sequences, FiniteSets

\* ------------------------------------------------------------------------
\* Bounds of the model
\* ------------------------------------------------------------------------

\* Window length used by the model; the program passes 50 (App.tsx:41).
Capacity == 3

\* Points generated after bootstrap (simulated appends + live merges).
MaxPoints == 2

\* Refresh cycles and manual analyses started in one behaviour.
MaxCycles == 2

\* The clock advances by whole refresh intervals, at most MaxJumps of them;
\* everything else happens at one of these instants.
MaxJumps == 1

\* The calls of generateHistoricalData of the page session of SpecBootstrap
\* and the count they pass.
MaxBootstraps == 2
BootstrapCount == 5

\* The seconds SpecSeconds follows the clock for.
MaxSeconds == 61

\* ------------------------------------------------------------------------
\* Program constants
\* ------------------------------------------------------------------------

Scale == 10 * 10 * 10

MOCK_START_PRICE == 2350 * Scale
MOCK_START_OI == 450000

CandleMs == 900000
SimMs == 3000
TickMs == 60000
CountdownMs == 1000
CountdownDefault == 60

\* ------------------------------------------------------------------------
\* Values
\* ------------------------------------------------------------------------

None == << >>
Some(x) == << x >>

SIMULATION == "SIMULATION"
LIVE_SEARCH == "LIVE_SEARCH"

IDLE == "IDLE"
LOADING == "LOADING"
SUCCESS == "SUCCESS"
ERROR == "ERROR"

\* Values typed into the key field and the value of process.env.API_KEY.
ApiKeys == {"", "key"}
EnvKeys == {"", "envkey"}
UserQuestions == {"", "q"}

\* Outcomes of Math.random(), in thousandths; one element is one call's
\* four draws (price change, premium, open-interest change, volume).
RandomLow == [change |-> 0, premium |-> 0, oi |-> 0, vol |-> 0]
RandomHigh == [change |-> 999, premium |-> 500, oi |-> 999, vol |-> 500]
RandomDraws == {RandomLow, RandomHigh}

\* The draws of one call of generateHistoricalData(count): high and low
\* outcomes in turn.
BootstrapDraws(count) ==
  {[i \in 1..count |-> IF i % 2 = 1 THEN RandomHigh ELSE RandomLow]}

\* The draws of one call of generateSimulatedOptions.
OptionDraws == {[change |-> 0, premium |-> 0, oi |-> 500, vol |-> 0]}

Abs(x) == IF x < 0 THEN -x ELSE x

Last(s) == s[Len(s)]


\* ------------------------------------------------------------------------
\* Number conversions
\* ------------------------------------------------------------------------

\* parseFloat(x.toFixed(2)): the nearest multiple of 0.01, a tie going away
\* from zero (toFixed picks the larger n for |x|).
Round2(x) ==
  LET n == (Abs(x) + 5) \div 10
  IN IF x < 0 THEN -(n * 10) ELSE n * 10

\* Math.floor of a fixed-point value, as a whole number.
Floor(x) == x \div Scale

\* toLocaleTimeString([], {hour: '2-digit', minute: '2-digit'}): the minute
\* of the day of a timestamp.
TimeLabel(ts) == (ts \div 60000) % 1440

\* ------------------------------------------------------------------------
\* services/marketData (src/unnamed/part_000)
\* ------------------------------------------------------------------------

\* One iteration of the loop of generateHistoricalData: the module-level
\* walk state w = [lastSpot, lastFuture, lastOI] after the iteration.
WalkStep(w, r) ==
  LET change == (r.change - 500) * 5
      futurePremium == 12 * Scale + r.premium * 5
      oiChange == (r.oi - 500) * 1000
                  + (IF change > 1 * Scale THEN 500 * Scale
                     ELSE IF change < -(1 * Scale) THEN -(500 * Scale) ELSE 0)
      spot == w.lastSpot + change
  IN [lastSpot |-> spot, lastFuture |-> spot + futurePremium,
      lastOI |-> w.lastOI + oiChange]

\* The walk state after the first i iterations with draws rs.
RECURSIVE WalkAfter(_, _, _)
WalkAfter(w, rs, i) ==
  IF i = 0 THEN w ELSE WalkStep(WalkAfter(w, rs, i - 1), rs[i])

\* generateHistoricalData(count) called at time t with walk state w and the
\* draws rs; the points get the arrival numbers first .. first + count - 1.
generateHistoricalData(count, w, rs, t, first) ==
  [i \in 1..count |->
     LET wi == WalkAfter(w, rs, i)
         ts == t - (count - (i - 1)) * CandleMs
     IN [seq |-> first + i - 1,
         timestamp |-> ts,
         timeLabel |-> TimeLabel(ts),
         spotPrice |-> Round2(wi.lastSpot),
         futurePrice |-> Round2(wi.lastFuture),
         openInterest |-> Floor(wi.lastOI),
         volume |-> Floor(rs[i].vol * 5000 + 1000 * Scale)]]

\* fetchLatestDataPoint(previousData) called at time t with draws r.
fetchLatestDataPoint(previousData, r, t, sq) ==
  LET lastPoint == Last(previousData)
      change == (r.change - 500) * 3
      futurePremium == 12 * Scale + r.premium * 4
      oiChange == (r.oi - 500) * 500
      newSpot == lastPoint.spotPrice + change
      newFuture == newSpot + futurePremium
      newOI == lastPoint.openInterest * Scale + oiChange
  IN [seq |-> sq,
      timestamp |-> t,
      timeLabel |-> TimeLabel(t),
      spotPrice |-> Round2(newSpot),
      futurePrice |-> Round2(newFuture),
      openInterest |-> Floor(newOI),
      volume |-> Floor(r.vol * 2000 + 500 * Scale)]

\* generateSimulatedOptions(): the five fixed series; the open interests are
\* abstracted to the draw they were made with.
generateSimulatedOptions(r) ==
  [i \in 1..5 |->
     [code |-> << "OGZ24", "OGG25", "OGV4", "1GO", "2GO" >>[i],
      type |-> << "MONTHLY", "MONTHLY", "WEEKLY", "DAILY", "DAILY" >>[i],
      draw |-> r.oi]]

\* ------------------------------------------------------------------------
\* services/geminiService.ts
\* ------------------------------------------------------------------------

\* getAI: the key the client is built with; "" stands for the thrown
\* "API Key is missing" error.
getAI(key, env) == IF key # "" THEN key ELSE env

\* The initial value of parsedData.
DefaultParsed ==
  [spotPrice |-> 0, futurePrice |-> 0, openInterest |-> 0, volume |-> 0,
   seriesIsArray |-> TRUE, optionSeries |-> << >>]

\* What generateContent can do in fetchRealTimeMarketData.  kind "rejected"
\* is a rejected call; otherwise json is what JSON.parse made of the matched
\* block (None: no match, or JSON.parse threw), numbers are the numbers the
\* fallback regex finds in the text, chunks the grounding chunks (web = FALSE:
\* a chunk without a web part).
FetchResponses ==
  { [kind |-> "rejected", json |-> None, numbers |-> << >>, chunks |-> << >>],
    [kind |-> "text",
     json |-> Some([spotPrice |-> 2600123, futurePrice |-> 2612500,
                    openInterest |-> 500000, volume |-> 120000,
                    seriesIsArray |-> TRUE,
                    optionSeries |-> << [code |-> "OGZ24", type |-> "MONTHLY",
                                         draw |-> 15000] >>]),
     numbers |-> << 2600123, 2612500, 500000 >>,
     chunks |-> << [web |-> TRUE, title |-> ""], [web |-> FALSE, title |-> ""] >>],
    [kind |-> "text",
     json |-> Some([spotPrice |-> 0, futurePrice |-> 0,
                    openInterest |-> 0, volume |-> 0,
                    seriesIsArray |-> FALSE, optionSeries |-> << >>]),
     numbers |-> << 2349995, 2362000, 449000 >>,
     chunks |-> << >>],
    [kind |-> "text", json |-> None, numbers |-> << 2600500, 2611000 >>,
     chunks |-> << [web |-> TRUE, title |-> "CME"] >>] }

\* The sources of a response: the chunks with a web part, an empty title
\* replaced by "Source".
GroundingSources(chunks) ==
  LET web == SelectSeq(chunks, LAMBDA ch : ch.web)
  IN [i \in 1..Len(web) |->
        IF web[i].title = "" THEN "Source" ELSE web[i].title]

\* fetchRealTimeMarketData with the validation off by one: two recovered
\* numbers are taken for a price pair.
fetchRealTimeMarketData_TwoNumbers(resp, t, sq) ==
  LET parsed0 == IF resp.json # None THEN resp.json[1] ELSE DefaultParsed
      needNumbers == parsed0.spotPrice = 0
      parsed1 == IF needNumbers /\ Len(resp.numbers) >= 2
                 THEN [parsed0 EXCEPT !.spotPrice = resp.numbers[1],
                                      !.futurePrice = resp.numbers[2]]
                 ELSE parsed0
      series == IF parsed1.seriesIsArray THEN parsed1.optionSeries ELSE << >>
  IN IF resp.kind = "rejected" \/ (needNumbers /\ Len(resp.numbers) < 2)
     THEN [ok |-> FALSE, dataPoint |-> None, optionSeries |-> << >>,
           sources |-> << >>]
     ELSE [ok |-> TRUE,
           dataPoint |->
             Some([seq |-> sq,
                   timestamp |-> t,
                   timeLabel |-> TimeLabel(t),
                   spotPrice |-> parsed1.spotPrice,
                   futurePrice |-> parsed1.futurePrice,
                   openInterest |-> parsed1.openInterest,
                   volume |-> IF parsed1.volume # 0 THEN parsed1.volume
                              ELSE 1000]),
           optionSeries |-> series,
           sources |-> GroundingSources(resp.chunks)]

\* fetchRealTimeMarketData after getAI succeeded: the settled promise, for
\* the response resp received at time t.  ok = FALSE is a rejection.
fetchRealTimeMarketData(resp, t, sq) ==
  LET parsed0 == IF resp.json # None THEN resp.json[1] ELSE DefaultParsed
      needNumbers == parsed0.spotPrice = 0
      parsed1 == IF needNumbers /\ Len(resp.numbers) >= 3
                 THEN [parsed0 EXCEPT !.spotPrice = resp.numbers[1],
                                      !.futurePrice = resp.numbers[2],
                                      !.openInterest = resp.numbers[3]]
                 ELSE parsed0
      series == IF parsed1.seriesIsArray THEN parsed1.optionSeries ELSE << >>
  IN IF resp.kind = "rejected" \/ (needNumbers /\ Len(resp.numbers) < 3)
     THEN [ok |-> FALSE, dataPoint |-> None, optionSeries |-> << >>,
           sources |-> << >>]
     ELSE [ok |-> TRUE,
           dataPoint |->
             Some([seq |-> sq,
                   timestamp |-> t,
                   timeLabel |-> TimeLabel(t),
                   spotPrice |-> parsed1.spotPrice,
                   futurePrice |-> parsed1.futurePrice,
                   openInterest |-> parsed1.openInterest,
                   volume |-> IF parsed1.volume # 0 THEN parsed1.volume
                              ELSE 1000]),
           optionSeries |-> series,
           sources |-> GroundingSources(resp.chunks)]

\* What generateContent can do in analyzeMarketData: a rejected call, an
\* empty text, a text JSON.parse throws on, or a structured answer.
AnalyzeResponses == {"rejected", "empty", "badjson", "json"}

\* The structured answer of the remote model (its content is not computed
\* by the program).
RemoteAnalysis(sources) ==
  [sentiment |-> "BULLISH", confidence |-> 80, summary |-> "remote",
   recommendation |-> "remote", basis |-> 12000, oiTrend |-> "RISING",
   priceTrend |-> "RISING", support |-> "remote", resistance |-> "remote",
   sourceUrls |-> sources]

\* The object returned by the catch block of analyzeMarketData.
FallbackAnalysis(basis) ==
  [sentiment |-> "NEUTRAL", confidence |-> 0, summary |-> "fallback",
   recommendation |-> "fallback", basis |-> basis, oiTrend |-> "STABLE",
   priceTrend |-> "STABLE", support |-> "-", resistance |-> "-",
   sourceUrls |-> << >>]

\* The lines of analyzeMarketData before its try block: TRUE when they throw
\* (getAI throws, or latest is undefined), which rejects the promise.
analyzeThrows(d, key, env) == getAI(key, env) = "" \/ Len(d) = 0

\* analyzeMarketData from its try block on: the value the promise resolves
\* with, for the response resp.
analyzeMarketData(d, sources, resp) ==
  LET latest == d[Len(d)]
      basis == latest.futurePrice - latest.spotPrice
  IN IF resp = "json" THEN RemoteAnalysis(sources) ELSE FallbackAnalysis(basis)

\* ------------------------------------------------------------------------
\* State
\* ------------------------------------------------------------------------

VARIABLES
  mounted,              \* the mount effects of App have run
  now,                  \* Date.now()
  envKey,               \* process.env.API_KEY
  walk,                 \* lastSpot, lastFuture, lastOI of services/marketData
  data,                 \* useState: the series
  optionData,           \* useState: the option series
  analysis,             \* useState: None (null) or Some(MarketAnalysis)
  analysisStatus,       \* useState
  dataMode,             \* useState
  isDataLoading,        \* useState
  apiKey,               \* useState
  userQuestion,         \* useState
  isAutoUpdate,         \* useState
  nextUpdateCountdown,  \* useState
  timers,               \* the intervals setInterval created and nobody cleared
  simInterval,          \* `interval` of the last run of the simulation effect
  interval,             \* `interval` of the last run of the auto-update effect
  countdownInterval,    \* `countdownInterval` of that run
  cycles,               \* the calls of fetchLiveValues suspended at an await
  manuals,              \* the analyzeMarketData promises of handleManualRefresh
  started,              \* number of cycles and manual analyses started so far
  arrived,              \* number of points generated so far
  unhandled,            \* a promise was rejected with no handler attached
  calls,                \* per call of fetchLiveValues: the fetch and analyze
                        \* calls it has made
  lastPriceDiff         \* priceDiff of the last run of the live updater

vars ==
  << mounted, now, envKey, walk, data, optionData, analysis, analysisStatus,
     dataMode, isDataLoading, apiKey, userQuestion, isAutoUpdate,
     nextUpdateCountdown, timers, simInterval, interval, countdownInterval,
     cycles, manuals, started, arrived, unhandled, calls, lastPriceDiff >>

\* The state of the component and of the imported modules before the first
\* effect runs: the useState initial values.
Init ==
  /\ mounted = FALSE
  /\ now = 0
  /\ envKey \in EnvKeys
  /\ walk = [lastSpot |-> MOCK_START_PRICE,
             lastFuture |-> MOCK_START_PRICE + 15 * Scale,
             lastOI |-> MOCK_START_OI * Scale]
  /\ data = << >>
  /\ optionData = << >>
  /\ analysis = None
  /\ analysisStatus = IDLE
  /\ dataMode = LIVE_SEARCH
  /\ isDataLoading = FALSE
  /\ apiKey = ""
  /\ userQuestion = ""
  /\ isAutoUpdate = FALSE
  /\ nextUpdateCountdown = CountdownDefault
  /\ timers = {}
  /\ simInterval = {}
  /\ interval = {}
  /\ countdownInterval = {}
  /\ cycles = {}
  /\ manuals = {}
  /\ started = 0
  /\ arrived = 0
  /\ unhandled = FALSE
  /\ calls = {}
  /\ lastPriceDiff = 0

\* ------------------------------------------------------------------------
\* Timers
\* ------------------------------------------------------------------------

\* The handle setInterval returns: one no live interval has.
FreshId(ts) ==
  CHOOSE i \in 1..(Cardinality(ts) + 1) : \A t \in ts : t.id # i

\* setInterval(callback, period) at time t.  key and question are the
\* apiKey and userQuestion the callback's fetchLiveValues closes over.
SetInterval(ts, kind, period, key, question, t) ==
  ts \cup {[id |-> FreshId(ts), kind |-> kind, period |-> period,
            last |-> t, apiKey |-> key, userQuestion |-> question]}

\* clearInterval(h); h = {} is clearInterval(undefined).
ClearInterval(ts, h) == {t \in ts : t.id \notin h}

\* An interval is due once its period has passed since it was created or
\* last ran; the event loop may run it late.
Due(t) == now >= t.last + t.period

Ran(t) == [t EXCEPT !.last = now]

\* ------------------------------------------------------------------------
\* Effects of App
\* ------------------------------------------------------------------------

\* The simulation effect without the test of dataMode.
SimulationEffect_NoModeCheck(ts, h, mode, len, t) ==
  LET cleared == ClearInterval(ts, h)
  IN IF len > 0
     THEN [timers |-> SetInterval(cleared, "sim", SimMs, "", "", t),
           simInterval |-> {FreshId(cleared)}]
     ELSE [timers |-> cleared, simInterval |-> {}]

\* The simulation effect re-run with the new dataMode and data.length: its
\* cleanup, then its body.
SimulationEffect(ts, h, mode, len, t) ==
  LET cleared == ClearInterval(ts, h)
  IN IF mode = SIMULATION /\ len > 0
     THEN [timers |-> SetInterval(cleared, "sim", SimMs, "", "", t),
           simInterval |-> {FreshId(cleared)}]
     ELSE [timers |-> cleared, simInterval |-> {}]

\* The cleanup without clearInterval(countdownInterval).
AutoUpdateCleanup_LeaksCountdown(ts, hi, hc) == ClearInterval(ts, hi)

\* The cleanup of the auto-update effect (its setNextUpdateCountdown(60) is
\* in the actions).
AutoUpdateCleanup(ts, hi, hc) == ClearInterval(ClearInterval(ts, hi), hc)

\* The auto-update effect re-run with the new dataMode, isAutoUpdate and
\* fetchLiveValues (which closes over key and question): cleanup, then body.
AutoUpdateEffect(ts, hi, hc, mode, auto, key, question, t) ==
  LET cleared == AutoUpdateCleanup(ts, hi, hc)
      withTick == SetInterval(cleared, "tick", TickMs, key, question, t)
  IN IF mode = LIVE_SEARCH /\ auto
     THEN [timers |-> SetInterval(withTick, "countdown", CountdownMs, "", "", t),
           interval |-> {FreshId(cleared)},
           countdownInterval |-> {FreshId(withTick)}]
     ELSE [timers |-> cleared, interval |-> {}, countdownInterval |-> {}]

\* ------------------------------------------------------------------------
\* fetchLiveValues and handleManualRefresh
\* ------------------------------------------------------------------------

\* A continuation is queued as a microtask: it runs before any other task.
MicrotaskPending ==
  \/ \E c \in cycles : c.pc = "fetchThrown"
  \/ \E m \in manuals : m.pc = "thrown"

\* A call of fetchLiveValues up to its first await.  The call of getAI in
\* fetchRealTimeMarketData throws without a key: the awaited promise is then
\* already rejected.  Two fields are there for the claims and are read by
\* no action: origin is the caller ("mode": the mode-change effect, "tick":
\* the 60 s interval, "manual": the refresh button), and cancelled records
\* that the mode was switched to SIMULATION or the scheduler stopped while
\* the cycle was in flight.
BeginCycle(key, question, origin) ==
  [id |-> started + 1, origin |-> origin,
   pc |-> IF getAI(key, envKey) = "" THEN "fetchThrown" ELSE "fetch",
   apiKey |-> key, userQuestion |-> question,
   dataPoint |-> None, sources |-> << >>, input |-> << >>,
   cancelled |-> FALSE]

Cancelled(cs) == {[c EXCEPT !.cancelled = TRUE] : c \in cs}

\* fetchLiveValues calling fetchRealTimeMarketData a second time (a retry).
Fetched_Twice(cs, id) ==
  cs \cup {[id |-> id, fetchCalls |-> 2, analyzeCalls |-> 0]}

\* The call of fetchRealTimeMarketData by the call id of fetchLiveValues: its
\* only one, made before the first await.
Fetched(cs, id) ==
  cs \cup {[id |-> id, fetchCalls |-> 1, analyzeCalls |-> 0]}

\* The call of analyzeMarketData by the call id of fetchLiveValues, reached
\* when the first await did not throw.
Analyzed(cs, id) ==
  {IF k.id = id THEN [k EXCEPT !.analyzeCalls = @ + 1] ELSE k : k \in cs}

\* The updater without slice(1): the oldest point is kept.
LiveMerge_NoEviction(prev, dataPoint) ==
  LET lastSimulated == prev[Len(prev)]
      priceDiff == dataPoint.spotPrice - lastSimulated.spotPrice
      adjustedHistory ==
        [i \in 1..Len(prev) |->
           [prev[i] EXCEPT !.spotPrice = Round2(prev[i].spotPrice + priceDiff),
                           !.futurePrice = Round2(prev[i].futurePrice + priceDiff)]]
  IN adjustedHistory \o << dataPoint >>

\* The updater shifting the spot price only.
LiveMerge_SpotOnly(prev, dataPoint) ==
  LET lastSimulated == prev[Len(prev)]
      priceDiff == dataPoint.spotPrice - lastSimulated.spotPrice
      adjustedHistory ==
        [i \in 1..Len(prev) |->
           [prev[i] EXCEPT !.spotPrice = Round2(prev[i].spotPrice + priceDiff)]]
  IN Tail(adjustedHistory) \o << dataPoint >>

\* The updater building each history point anew with the time of the new
\* point.
LiveMerge_Restamps(prev, dataPoint) ==
  LET lastSimulated == prev[Len(prev)]
      priceDiff == dataPoint.spotPrice - lastSimulated.spotPrice
      adjustedHistory ==
        [i \in 1..Len(prev) |->
           [prev[i] EXCEPT !.timestamp = dataPoint.timestamp,
                           !.timeLabel = dataPoint.timeLabel,
                           !.spotPrice = Round2(prev[i].spotPrice + priceDiff),
                           !.futurePrice = Round2(prev[i].futurePrice + priceDiff)]]
  IN Tail(adjustedHistory) \o << dataPoint >>

\* The updater as a plain append: the history is not shifted.
LiveMerge_AppendOnly(prev, dataPoint) ==
  Tail(prev) \o << dataPoint >>

\* The updater without toFixed(2).
LiveMerge_Unrounded(prev, dataPoint) ==
  LET lastSimulated == prev[Len(prev)]
      priceDiff == dataPoint.spotPrice - lastSimulated.spotPrice
      adjustedHistory ==
        [i \in 1..Len(prev) |->
           [prev[i] EXCEPT !.spotPrice = prev[i].spotPrice + priceDiff,
                           !.futurePrice = prev[i].futurePrice + priceDiff]]
  IN Tail(adjustedHistory) \o << dataPoint >>

\* The setData updater of fetchLiveValues.
LiveMerge(prev, dataPoint) ==
  LET lastSimulated == prev[Len(prev)]
      priceDiff == dataPoint.spotPrice - lastSimulated.spotPrice
      adjustedHistory ==
        [i \in 1..Len(prev) |->
           [prev[i] EXCEPT !.spotPrice = Round2(prev[i].spotPrice + priceDiff),
                           !.futurePrice = Round2(prev[i].futurePrice + priceDiff)]]
  IN Tail(adjustedHistory) \o << dataPoint >>

\* The updater of the simulation interval.
SimulatedAppend(prev, r, t, sq) ==
  Tail(prev) \o << fetchLatestDataPoint(prev, r, t, sq) >>

\* priceChange of analyzeMarketData for the series d: latest minus previous,
\* previous being data[0] when there is one point only.
AnalyzePriceChange(d) ==
  LET latest == d[Len(d)]
      previous == IF Len(d) > 1 THEN d[Len(d) - 1] ELSE d[1]
  IN latest.spotPrice - previous.spotPrice

\* priceDiff of the render of App for the series d.
DisplayPriceDiff(d) ==
  IF Len(d) > 1 THEN d[Len(d)].spotPrice - d[Len(d) - 1].spotPrice ELSE 0

\* disabled={status === AnalysisStatus.LOADING} of the refresh button.
ManualRefreshEnabled == analysisStatus # LOADING

\* ------------------------------------------------------------------------
\* Tasks started by React and by the user
\* ------------------------------------------------------------------------

\* The mount effects, in source order: bootstrap (after which the simulation
\* effect runs with data.length > 0), the mode-change effect, which calls
\* fetchLiveValues in LIVE_SEARCH, and the auto-update effect.
Mount ==
  /\ ~mounted
  /\ started < MaxCycles
  /\ mounted' = TRUE
  /\ \E rs \in BootstrapDraws(Capacity), ro \in OptionDraws :
       /\ data' = generateHistoricalData(Capacity, walk, rs, now, arrived + 1)
       /\ walk' = WalkAfter(walk, rs, Capacity)
       /\ optionData' = generateSimulatedOptions(ro)
  /\ arrived' = arrived + Capacity
  /\ LET sim == SimulationEffect(timers, simInterval, dataMode, Capacity, now)
         auto == AutoUpdateEffect(sim.timers, interval, countdownInterval,
                                  dataMode, isAutoUpdate, apiKey, userQuestion, now)
     IN /\ timers' = auto.timers
        /\ simInterval' = sim.simInterval
        /\ interval' = auto.interval
        /\ countdownInterval' = auto.countdownInterval
  /\ IF dataMode = LIVE_SEARCH
     THEN /\ isDataLoading' = TRUE
          /\ analysisStatus' = LOADING
          /\ cycles' = cycles \cup {BeginCycle(apiKey, userQuestion, "mode")}
          /\ calls' = Fetched(calls, started + 1)
          /\ started' = started + 1
     ELSE UNCHANGED << isDataLoading, analysisStatus, cycles, calls, started >>
  /\ UNCHANGED << now, envKey, analysis, dataMode, apiKey, userQuestion,
                  isAutoUpdate, nextUpdateCountdown, manuals, unhandled,
                  lastPriceDiff >>

\* toggleMode without its setIsAutoUpdate(false): the scheduler survives the
\* switch.
toggleMode_KeepsAutoUpdate ==
  LET newMode == IF dataMode = SIMULATION THEN LIVE_SEARCH ELSE SIMULATION
      sim == SimulationEffect(timers, simInterval, newMode, Len(data), now)
      auto == AutoUpdateEffect(sim.timers, interval, countdownInterval,
                               newMode, isAutoUpdate, apiKey, userQuestion, now)
  IN /\ mounted
     /\ ~MicrotaskPending
     /\ newMode = LIVE_SEARCH => started < MaxCycles
     /\ dataMode' = newMode
     /\ analysis' = None
     /\ timers' = auto.timers
     /\ simInterval' = sim.simInterval
     /\ interval' = auto.interval
     /\ countdownInterval' = auto.countdownInterval
     /\ nextUpdateCountdown' = CountdownDefault
     /\ IF newMode = LIVE_SEARCH
        THEN /\ isDataLoading' = TRUE
             /\ analysisStatus' = LOADING
             /\ cycles' = cycles \cup {BeginCycle(apiKey, userQuestion, "mode")}
             /\ calls' = Fetched(calls, started + 1)
             /\ started' = started + 1
        ELSE /\ analysisStatus' = IDLE
             /\ cycles' = Cancelled(cycles)
             /\ UNCHANGED << isDataLoading, calls, started >>
     /\ UNCHANGED << mounted, now, envKey, walk, data, optionData, apiKey,
                     userQuestion, isAutoUpdate, manuals, arrived, unhandled,
                     lastPriceDiff >>

\* toggleMode and the effects its render runs: the simulation effect, the
\* mode-change effect and the auto-update effect (cleanup, then body).
toggleMode ==
  LET newMode == IF dataMode = SIMULATION THEN LIVE_SEARCH ELSE SIMULATION
      sim == SimulationEffect(timers, simInterval, newMode, Len(data), now)
      auto == AutoUpdateEffect(sim.timers, interval, countdownInterval,
                               newMode, FALSE, apiKey, userQuestion, now)
  IN /\ mounted
     /\ ~MicrotaskPending
     /\ newMode = LIVE_SEARCH => started < MaxCycles
     /\ dataMode' = newMode
     /\ analysis' = None
     /\ isAutoUpdate' = FALSE
     /\ timers' = auto.timers
     /\ simInterval' = sim.simInterval
     /\ interval' = auto.interval
     /\ countdownInterval' = auto.countdownInterval
     /\ nextUpdateCountdown' = CountdownDefault
     /\ IF newMode = LIVE_SEARCH
        THEN /\ isDataLoading' = TRUE
             /\ analysisStatus' = LOADING
             /\ cycles' = cycles \cup {BeginCycle(apiKey, userQuestion, "mode")}
             /\ calls' = Fetched(calls, started + 1)
             /\ started' = started + 1
        ELSE /\ analysisStatus' = IDLE
             /\ cycles' = Cancelled(cycles)
             /\ UNCHANGED << isDataLoading, calls, started >>
     /\ UNCHANGED << mounted, now, envKey, walk, data, optionData, apiKey,
                     userQuestion, manuals, arrived, unhandled,
                     lastPriceDiff >>

\* The auto-update button with a cleanup that lacks
\* setNextUpdateCountdown(60).
toggleAutoUpdate_NoReset ==
  LET auto == AutoUpdateEffect(timers, interval, countdownInterval, dataMode,
                               ~isAutoUpdate, apiKey, userQuestion, now)
  IN /\ mounted
     /\ ~MicrotaskPending
     /\ dataMode = LIVE_SEARCH
     /\ isAutoUpdate' = ~isAutoUpdate
     /\ timers' = auto.timers
     /\ interval' = auto.interval
     /\ countdownInterval' = auto.countdownInterval
     /\ cycles' = IF isAutoUpdate THEN Cancelled(cycles) ELSE cycles
     /\ UNCHANGED << mounted, now, envKey, walk, data, optionData, analysis,
                     analysisStatus, dataMode, isDataLoading, apiKey,
                     userQuestion, nextUpdateCountdown, simInterval, manuals,
                     started, arrived, unhandled, calls, lastPriceDiff >>

\* The auto-update button (rendered in LIVE_SEARCH only) and the re-run of
\* the auto-update effect.
toggleAutoUpdate ==
  LET auto == AutoUpdateEffect(timers, interval, countdownInterval, dataMode,
                               ~isAutoUpdate, apiKey, userQuestion, now)
  IN /\ mounted
     /\ ~MicrotaskPending
     /\ dataMode = LIVE_SEARCH
     /\ isAutoUpdate' = ~isAutoUpdate
     /\ timers' = auto.timers
     /\ interval' = auto.interval
     /\ countdownInterval' = auto.countdownInterval
     /\ nextUpdateCountdown' = CountdownDefault
     /\ cycles' = IF isAutoUpdate THEN Cancelled(cycles) ELSE cycles
     /\ UNCHANGED << mounted, now, envKey, walk, data, optionData, analysis,
                     analysisStatus, dataMode, isDataLoading, apiKey,
                     userQuestion, simInterval, manuals, started, arrived,
                     unhandled, calls, lastPriceDiff >>

\* onChange of the key field with an auto-update effect that does not depend
\* on fetchLiveValues: the interval keeps calling the former function.
setApiKey_KeepsInterval(k) ==
  /\ mounted
  /\ ~MicrotaskPending
  /\ k # apiKey
  /\ apiKey' = k
  /\ UNCHANGED << mounted, now, envKey, walk, data, optionData, analysis,
                  analysisStatus, dataMode, isDataLoading, userQuestion,
                  isAutoUpdate, nextUpdateCountdown, timers, simInterval,
                  interval, countdownInterval, cycles, manuals, started,
                  arrived, unhandled, calls, lastPriceDiff >>

\* onChange of the key field: fetchLiveValues is a new function, so the
\* auto-update effect runs again.
setApiKey(k) ==
  LET auto == AutoUpdateEffect(timers, interval, countdownInterval, dataMode,
                               isAutoUpdate, k, userQuestion, now)
  IN /\ mounted
     /\ ~MicrotaskPending
     /\ k # apiKey
     /\ apiKey' = k
     /\ timers' = auto.timers
     /\ interval' = auto.interval
     /\ countdownInterval' = auto.countdownInterval
     /\ nextUpdateCountdown' = CountdownDefault
     /\ UNCHANGED << mounted, now, envKey, walk, data, optionData, analysis,
                     analysisStatus, dataMode, isDataLoading, userQuestion,
                     isAutoUpdate, simInterval, cycles, manuals, started,
                     arrived, unhandled, calls, lastPriceDiff >>

\* onChange of the question field, likewise.
setUserQuestion(q) ==
  LET auto == AutoUpdateEffect(timers, interval, countdownInterval, dataMode,
                               isAutoUpdate, apiKey, q, now)
  IN /\ mounted
     /\ ~MicrotaskPending
     /\ q # userQuestion
     /\ userQuestion' = q
     /\ timers' = auto.timers
     /\ interval' = auto.interval
     /\ countdownInterval' = auto.countdownInterval
     /\ nextUpdateCountdown' = CountdownDefault
     /\ UNCHANGED << mounted, now, envKey, walk, data, optionData, analysis,
                     analysisStatus, dataMode, isDataLoading, apiKey,
                     isAutoUpdate, simInterval, cycles, manuals, started,
                     arrived, unhandled, calls, lastPriceDiff >>

\* A click on the refresh button of AnalysisPanel: handleManualRefresh.
handleManualRefresh ==
  /\ mounted
  /\ ~MicrotaskPending
  /\ ManualRefreshEnabled
  /\ started < MaxCycles
  /\ started' = started + 1
  /\ analysisStatus' = LOADING
  /\ IF dataMode = LIVE_SEARCH
     THEN /\ isDataLoading' = TRUE
          /\ cycles' = cycles \cup {BeginCycle(apiKey, userQuestion, "manual")}
          /\ calls' = Fetched(calls, started + 1)
          /\ UNCHANGED manuals
     ELSE /\ manuals' = manuals \cup
                {[id |-> started + 1,
                  pc |-> IF analyzeThrows(data, apiKey, envKey)
                         THEN "thrown" ELSE "analyze",
                  input |-> data]}
          /\ UNCHANGED << isDataLoading, cycles, calls >>
  /\ UNCHANGED << mounted, now, envKey, walk, data, optionData, analysis,
                  dataMode, apiKey, userQuestion, isAutoUpdate,
                  nextUpdateCountdown, timers, simInterval, interval,
                  countdownInterval, arrived, unhandled, lastPriceDiff >>

\* ------------------------------------------------------------------------
\* Timer callbacks
\* ------------------------------------------------------------------------

\* The callback of the simulation interval.  Math.random() > 0.7 decides
\* whether the option series are regenerated.
SimulationTick(t) ==
  /\ ~MicrotaskPending
  /\ t \in timers /\ t.kind = "sim" /\ Due(t)
  /\ arrived < Capacity + MaxPoints
  /\ timers' = (timers \ {t}) \cup {Ran(t)}
  /\ arrived' = arrived + 1
  /\ \E r \in RandomDraws :
       data' = SimulatedAppend(data, r, now, arrived + 1)
  /\ \E regenerate \in BOOLEAN, ro \in OptionDraws :
       optionData' = IF regenerate THEN generateSimulatedOptions(ro)
                     ELSE optionData
  /\ UNCHANGED << mounted, now, envKey, walk, analysis, analysisStatus,
                  dataMode, isDataLoading, apiKey, userQuestion, isAutoUpdate,
                  nextUpdateCountdown, simInterval, interval,
                  countdownInterval, cycles, manuals, started, unhandled,
                  calls, lastPriceDiff >>

\* The callback of the 60 s interval: fetchLiveValues().
AutoUpdateTick(t) ==
  /\ ~MicrotaskPending
  /\ t \in timers /\ t.kind = "tick" /\ Due(t)
  /\ started < MaxCycles
  /\ timers' = (timers \ {t}) \cup {Ran(t)}
  /\ isDataLoading' = TRUE
  /\ analysisStatus' = LOADING
  /\ cycles' = cycles \cup {BeginCycle(t.apiKey, t.userQuestion, "tick")}
  /\ calls' = Fetched(calls, started + 1)
  /\ started' = started + 1
  /\ UNCHANGED << mounted, now, envKey, walk, data, optionData, analysis,
                  dataMode, apiKey, userQuestion, isAutoUpdate,
                  nextUpdateCountdown, simInterval, interval,
                  countdownInterval, manuals, arrived, unhandled,
                  lastPriceDiff >>

\* The callback without the wrap: prev - 1 always.
CountdownTick_NoWrap(t) ==
  /\ ~MicrotaskPending
  /\ t \in timers /\ t.kind = "countdown" /\ Due(t)
  /\ timers' = (timers \ {t}) \cup {Ran(t)}
  /\ nextUpdateCountdown' = nextUpdateCountdown - 1
  /\ UNCHANGED << mounted, now, envKey, walk, data, optionData, analysis,
                  analysisStatus, dataMode, isDataLoading, apiKey,
                  userQuestion, isAutoUpdate, simInterval, interval,
                  countdownInterval, cycles, manuals, started, arrived,
                  unhandled, calls, lastPriceDiff >>

\* The callback of the 1 s interval.
CountdownTick(t) ==
  /\ ~MicrotaskPending
  /\ t \in timers /\ t.kind = "countdown" /\ Due(t)
  /\ timers' = (timers \ {t}) \cup {Ran(t)}
  /\ nextUpdateCountdown' = IF nextUpdateCountdown > 0
                            THEN nextUpdateCountdown - 1
                            ELSE CountdownDefault
  /\ UNCHANGED << mounted, now, envKey, walk, data, optionData, analysis,
                  analysisStatus, dataMode, isDataLoading, apiKey,
                  userQuestion, isAutoUpdate, simInterval, interval,
                  countdownInterval, cycles, manuals, started, arrived,
                  unhandled, calls, lastPriceDiff >>

\* ------------------------------------------------------------------------
\* Continuations of fetchLiveValues
\* ------------------------------------------------------------------------

\* A catch block that gives up auto-refresh: it disables it and clears the
\* two intervals.
CycleCatch_StopsScheduler(c) ==
  /\ analysisStatus' = ERROR
  /\ isDataLoading' = FALSE
  /\ cycles' = cycles \ {c}
  /\ isAutoUpdate' = FALSE
  /\ timers' = AutoUpdateCleanup(timers, interval, countdownInterval)
  /\ interval' = {}
  /\ countdownInterval' = {}

\* The catch and finally blocks of fetchLiveValues: they set the status and
\* the loading flag and touch neither the auto-refresh flag nor an interval.
CycleCatch(c) ==
  /\ analysisStatus' = ERROR
  /\ isDataLoading' = FALSE
  /\ cycles' = cycles \ {c}
  /\ UNCHANGED << isAutoUpdate, timers, interval, countdownInterval >>

\* The await of a fetch that threw in getAI.
FetchThrown(c) ==
  /\ c \in cycles /\ c.pc = "fetchThrown"
  /\ CycleCatch(c)
  /\ UNCHANGED << mounted, now, envKey, walk, data, optionData, analysis,
                  dataMode, apiKey, userQuestion, nextUpdateCountdown,
                  simInterval, manuals, started, arrived, unhandled, calls,
                  lastPriceDiff >>

\* The fetch promise of cycle c settles with the response resp.  On success
\* the series is merged, the options are replaced when the list is not
\* empty, and analyzeMarketData is called.  updatedData is assigned inside
\* the setData updater: React runs the updater during the call (captured)
\* or at the next render, and then analyzeMarketData gets [dataPoint].
FetchSettled(c, resp) ==
  LET res == fetchRealTimeMarketData(resp, now, arrived + 1)
      dataPoint == res.dataPoint[1]
      newData == LiveMerge(data, dataPoint)
  IN /\ ~MicrotaskPending
     /\ c \in cycles /\ c.pc = "fetch"
     /\ IF ~res.ok
        THEN /\ CycleCatch(c)
             /\ UNCHANGED << data, optionData, arrived, calls, lastPriceDiff >>
        ELSE /\ arrived < Capacity + MaxPoints
             /\ arrived' = arrived + 1
             /\ data' = newData
             /\ lastPriceDiff' = dataPoint.spotPrice - Last(data).spotPrice
             /\ calls' = Analyzed(calls, c.id)
             /\ optionData' = IF Len(res.optionSeries) > 0
                              THEN res.optionSeries ELSE optionData
             /\ \E captured \in BOOLEAN :
                  LET input == IF captured THEN newData ELSE << dataPoint >>
                  IN IF analyzeThrows(input, c.apiKey, envKey)
                     THEN CycleCatch(c)
                     ELSE /\ cycles' = (cycles \ {c}) \cup
                               {[c EXCEPT !.pc = "analyze",
                                          !.dataPoint = res.dataPoint,
                                          !.sources = res.sources,
                                          !.input = input]}
                          /\ UNCHANGED << analysisStatus, isDataLoading,
                                          isAutoUpdate, timers, interval,
                                          countdownInterval >>
     /\ UNCHANGED << mounted, now, envKey, walk, analysis, dataMode, apiKey,
                     userQuestion, nextUpdateCountdown, simInterval, manuals,
                     started, unhandled >>

\* The analyze promise of cycle c resolves.
AnalyzeSettled(c, resp) ==
  /\ ~MicrotaskPending
  /\ c \in cycles /\ c.pc = "analyze"
  /\ analysis' = Some(analyzeMarketData(c.input, c.sources, resp))
  /\ analysisStatus' = SUCCESS
  /\ nextUpdateCountdown' = CountdownDefault
  /\ isDataLoading' = FALSE
  /\ cycles' = cycles \ {c}
  /\ UNCHANGED << mounted, now, envKey, walk, data, optionData, dataMode,
                  apiKey, userQuestion, isAutoUpdate, timers, simInterval,
                  interval, countdownInterval, manuals, started, arrived,
                  unhandled, calls, lastPriceDiff >>

\* ------------------------------------------------------------------------
\* Continuations of handleManualRefresh
\* ------------------------------------------------------------------------

\* analyzeMarketData threw before its try block: the promise is rejected
\* and .then() was given no rejection handler.
ManualThrown(m) ==
  /\ m \in manuals /\ m.pc = "thrown"
  /\ manuals' = manuals \ {m}
  /\ unhandled' = TRUE
  /\ UNCHANGED << mounted, now, envKey, walk, data, optionData, analysis,
                  analysisStatus, dataMode, isDataLoading, apiKey,
                  userQuestion, isAutoUpdate, nextUpdateCountdown, timers,
                  simInterval, interval, countdownInterval, cycles, started,
                  arrived, calls, lastPriceDiff >>

\* The .then() callback of handleManualRefresh.
ManualSettled(m, resp) ==
  /\ ~MicrotaskPending
  /\ m \in manuals /\ m.pc = "analyze"
  /\ manuals' = manuals \ {m}
  /\ analysis' = Some(analyzeMarketData(m.input, << >>, resp))
  /\ analysisStatus' = SUCCESS
  /\ UNCHANGED << mounted, now, envKey, walk, data, optionData, dataMode,
                  isDataLoading, apiKey, userQuestion, isAutoUpdate,
                  nextUpdateCountdown, timers, simInterval, interval,
                  countdownInterval, cycles, started, arrived, unhandled,
                  calls, lastPriceDiff >>

\* ------------------------------------------------------------------------
\* Time
\* ------------------------------------------------------------------------

\* Time passes: one refresh interval.
Advance ==
  /\ mounted
  /\ ~MicrotaskPending
  /\ (now + TickMs) \div TickMs <= MaxJumps
  /\ now' = now + TickMs
  /\ UNCHANGED << mounted, envKey, walk, data, optionData, analysis,
                  analysisStatus, dataMode, isDataLoading, apiKey,
                  userQuestion, isAutoUpdate, nextUpdateCountdown, timers,
                  simInterval, interval, countdownInterval, cycles, manuals,
                  started, arrived, unhandled, calls, lastPriceDiff >>

Next ==
  \/ Mount
  \/ toggleMode
  \/ toggleAutoUpdate
  \/ \E k \in ApiKeys : setApiKey(k)
  \/ \E q \in UserQuestions : setUserQuestion(q)
  \/ handleManualRefresh
  \/ \E t \in timers : SimulationTick(t)
  \/ \E t \in timers : AutoUpdateTick(t)
  \/ \E t \in timers : CountdownTick(t)
  \/ \E c \in cycles : FetchThrown(c)
  \/ \E c \in cycles, resp \in FetchResponses : FetchSettled(c, resp)
  \/ \E c \in cycles, resp \in AnalyzeResponses : AnalyzeSettled(c, resp)
  \/ \E m \in manuals : ManualThrown(m)
  \/ \E m \in manuals, resp \in AnalyzeResponses : ManualSettled(m, resp)
  \/ Advance

Spec == Init /\ [][Next]_vars

\* Every call of the remote service settles: a pending continuation of
\* fetchLiveValues or of handleManualRefresh eventually runs.  Nothing is
\* assumed of the user or of the clock.
SpecSettling ==
  /\ Init /\ [][Next]_vars
  /\ WF_vars(\E c \in cycles : FetchThrown(c))
  /\ WF_vars(\E c \in cycles, resp \in FetchResponses : FetchSettled(c, resp))
  /\ WF_vars(\E c \in cycles, resp \in AnalyzeResponses : AnalyzeSettled(c, resp))
  /\ WF_vars(\E m \in manuals : ManualThrown(m))
  /\ WF_vars(\E m \in manuals, resp \in AnalyzeResponses : ManualSettled(m, resp))

\* ------------------------------------------------------------------------
\* The scheduler second by second
\* ------------------------------------------------------------------------

\* One second passes.  The event loop is idle: every interval that was due
\* has run.  Time is followed only while an interval exists (without one
\* its passing changes nothing but Date.now()).
AdvanceSecond ==
  /\ mounted
  /\ ~MicrotaskPending
  /\ timers # {}
  /\ \A t \in timers : ~Due(t)
  /\ now + CountdownMs <= MaxSeconds * CountdownMs
  /\ now' = now + CountdownMs
  /\ UNCHANGED << mounted, envKey, walk, data, optionData, analysis,
                  analysisStatus, dataMode, isDataLoading, apiKey,
                  userQuestion, isAutoUpdate, nextUpdateCountdown, timers,
                  simInterval, interval, countdownInterval, cycles, manuals,
                  started, arrived, unhandled, calls, lastPriceDiff >>

\* The user starts auto-refresh right after the page has loaded and may stop
\* it at any time.
StartOrStop == (isAutoUpdate \/ now = 0) /\ toggleAutoUpdate

\* The page in LIVE_SEARCH with the auto-update button as the only control
\* used.
NextSeconds ==
  \/ Mount
  \/ StartOrStop
  \/ \E t \in timers : AutoUpdateTick(t)
  \/ \E t \in timers : CountdownTick(t)
  \/ \E c \in cycles : FetchThrown(c)
  \/ \E c \in cycles, resp \in FetchResponses : FetchSettled(c, resp)
  \/ \E c \in cycles, resp \in AnalyzeResponses : AnalyzeSettled(c, resp)
  \/ AdvanceSecond

SpecSeconds == Init /\ [][NextSeconds]_vars

\* ------------------------------------------------------------------------
\* The simulator on its own
\* ------------------------------------------------------------------------

\* A call generateHistoricalData(BootstrapCount) with any draws; data holds
\* the array it returns.  The module-level lastSpot, lastFuture and lastOI
\* are what the previous call left.
CallGenerateHistoricalData ==
  /\ arrived < MaxBootstraps * BootstrapCount
  /\ \E rs \in [1..BootstrapCount -> RandomDraws] :
       /\ data' = generateHistoricalData(BootstrapCount, walk, rs, now,
                                         arrived + 1)
       /\ walk' = WalkAfter(walk, rs, BootstrapCount)
  /\ arrived' = arrived + BootstrapCount
  /\ UNCHANGED << mounted, now, envKey, optionData, analysis, analysisStatus,
                  dataMode, isDataLoading, apiKey, userQuestion, isAutoUpdate,
                  nextUpdateCountdown, timers, simInterval, interval,
                  countdownInterval, cycles, manuals, started, unhandled,
                  calls, lastPriceDiff >>

SpecBootstrap == Init /\ [][CallGenerateHistoricalData]_vars

\* ------------------------------------------------------------------------
\* Properties
\* ------------------------------------------------------------------------

TickTimers == {t \in timers : t.kind = "tick"}
CountdownTimers == {t \in timers : t.kind = "countdown"}
SimTimers == {t \in timers : t.kind = "sim"}

\* C1: at most one refresh cycle (one call of fetchLiveValues) is in flight
\* at any time.
C1_OneCycleInFlight == Cardinality(cycles) <= 1

\* C2: when the fetch or analyze call of a cycle resolves after the mode was
\* switched to SIMULATION or the scheduler was stopped during the cycle, the
\* step changes neither the series nor the analysis result nor the status.
C2_CancelledResultDiscarded ==
  [][\A c \in cycles :
       (c.cancelled /\ c \notin cycles')
         => UNCHANGED << data, analysis, analysisStatus >>]_vars

\* The failures of the fetch step that C3 names, for a cycle c that gets the
\* response resp: no credential, a rejected call, or no price in the parsed
\* block and fewer than three numbers in the text.
FetchFailureCase(c, resp) ==
  \/ c.pc = "fetchThrown"
  \/ /\ c.pc = "fetch"
     /\ \/ resp.kind = "rejected"
        \/ /\ resp.json = None \/ resp.json[1].spotPrice = 0
           /\ Len(resp.numbers) < 3

\* C3: every cycle starts by setting the status to LOADING; a step in which
\* its fetch fails sets the status to ERROR, leaves the series as it was and
\* ends the cycle without an analyze call.
C3_FetchFailureCommitsNothing ==
  [][/\ \A c \in cycles' :
          (\A c0 \in cycles : c0.id # c.id) => analysisStatus' = LOADING
     /\ \A c \in cycles, resp \in FetchResponses :
          (FetchFailureCase(c, resp)
             /\ (FetchThrown(c) \/ FetchSettled(c, resp)))
            => /\ data' = data
               /\ arrived' = arrived
               /\ analysisStatus' = ERROR
               /\ \A c1 \in cycles' : c1.id # c.id]_vars

\* A cycle ended in ERROR and the series is the bootstrapped one.
C3_Witness ==
  /\ mounted /\ started >= 1 /\ cycles = {}
  /\ analysisStatus = ERROR /\ ~isDataLoading
  /\ arrived = Capacity

\* C4: after bootstrap the series holds exactly Capacity points, and they are
\* the last Capacity points generated, in arrival order.
C4_WindowIsLastPoints ==
  mounted =>
    /\ Len(data) = Capacity
    /\ \A i \in 1..Len(data) : data[i].seq = arrived - Capacity + i

\* Appends have evicted every bootstrapped point but one.
C4_Witness ==
  /\ mounted
  /\ arrived = Capacity + MaxPoints
  /\ Len(data) = Capacity
  /\ data[1].seq = MaxPoints + 1

\* v is x rounded to 2 decimals.
IsRounded2(v, x) == v % 10 = 0 /\ Abs(v - x) <= 5

\* C5: a live merge of the point with price Q into a series whose latest
\* price is P keeps the length, makes Q the latest price and leaves, in every
\* other place, the next-older point's two prices plus (Q - P) rounded to 2
\* decimals.
C5_MergeShiftsHistory ==
  [][\A c \in cycles, c1 \in cycles' :
       (c.id = c1.id /\ c.pc = "fetch" /\ c1.pc = "analyze")
         => LET L == Len(data)
                P == data[L].spotPrice
                Q == c1.dataPoint[1].spotPrice
            IN /\ Len(data') = L
               /\ data'[L] = c1.dataPoint[1]
               /\ data'[L].spotPrice = Q
               /\ \A i \in 1..(L - 1) :
                    /\ IsRounded2(data'[i].spotPrice,
                                  data[i + 1].spotPrice + (Q - P))
                    /\ IsRounded2(data'[i].futurePrice,
                                  data[i + 1].futurePrice + (Q - P))]_vars

\* A point with a price of three decimals was merged into the bootstrapped
\* series: the former latest point now carries that price, rounded.
C5_Witness ==
  /\ mounted
  /\ arrived = Capacity + 1
  /\ data[Capacity].spotPrice = 2600123
  /\ data[Capacity - 1].spotPrice = 2600120
  /\ data[Capacity - 1].seq = Capacity

\* C6: at most one 60 s interval and at most one countdown interval exist.
C6_OneTimerPair ==
  /\ Cardinality(TickTimers) <= 1
  /\ Cardinality(CountdownTimers) <= 1

\* The scheduler was restarted while running: a cycle that a tick started
\* with the former key is in flight, and one timer pair with the new key
\* exists.
C6_Witness ==
  /\ isAutoUpdate
  /\ Cardinality(TickTimers) = 1
  /\ Cardinality(CountdownTimers) = 1
  /\ \E c \in cycles, t \in TickTimers :
       c.origin = "tick" /\ c.apiKey # t.apiKey

\* C7: the timestamps of the series are strictly increasing.
C7_TimestampsIncrease ==
  \A i \in 1..(Len(data) - 1) : data[i].timestamp < data[i + 1].timestamp

\* C8: analyzeMarketData never rejects: no manual analysis is rejected and no
\* rejection is left unhandled.
C8_AnalyzeNeverRejects ==
  /\ ~unhandled
  /\ \A m \in manuals : m.pc # "thrown"

\* C9: in every state after mounting a manual refresh is accepted.
C9_ManualRefreshAccepted == mounted => ManualRefreshEnabled

\* C10: when the analyze call of a cycle fails, the cycle ends with status
\* ERROR and the fallback result, and the series keeps the merged point.
C10_AnalyzeFailureIsError ==
  [][\A c \in cycles, resp \in AnalyzeResponses \ {"json"} :
       AnalyzeSettled(c, resp)
         => /\ analysisStatus' = ERROR
            /\ analysis' = Some(FallbackAnalysis(
                 Last(c.input).futurePrice - Last(c.input).spotPrice))
            /\ data' = data]_vars

\* C11: a step in which the fetch of a cycle fails sets the status to ERROR
\* and stores a neutral, zero-confidence analysis result.
C11_FetchFailureStoresNeutral ==
  [][\A c \in cycles, resp \in FetchResponses :
       (FetchFailureCase(c, resp)
          /\ (FetchThrown(c) \/ FetchSettled(c, resp)))
         => /\ analysisStatus' = ERROR
            /\ analysis' # None
            /\ analysis'[1].sentiment = "NEUTRAL"
            /\ analysis'[1].confidence = 0]_vars

\* The scheduler is RUNNING: auto-refresh is enabled in LIVE_SEARCH.
Running == dataMode = LIVE_SEARCH /\ isAutoUpdate

\* The cycles a step starts.
NewCycles == {c \in cycles' : \A c0 \in cycles : c0.id # c.id}

\* C12: a step that switches the mode leaves auto-refresh disabled, no 60 s
\* interval and no countdown interval, and the analysis result cleared; a
\* switch to SIMULATION leaves the status IDLE and starts no cycle, a switch
\* to LIVE_SEARCH starts exactly one cycle (whose start sets LOADING over
\* the IDLE of the switch).
C12_ModeSwitchResets ==
  [][dataMode' # dataMode
       => /\ ~isAutoUpdate'
          /\ TickTimers' = {}
          /\ CountdownTimers' = {}
          /\ analysis' = None
          /\ dataMode' = SIMULATION
               => /\ analysisStatus' = IDLE
                  /\ NewCycles = {}
                  /\ manuals' = manuals
          /\ dataMode' = LIVE_SEARCH
               => /\ Cardinality(NewCycles) = 1
                  /\ analysisStatus' = LOADING
                  /\ \A c \in NewCycles : c.origin = "mode"]_vars

\* The mode was switched to SIMULATION after the scheduler had run: a cycle
\* that a tick started is still in flight, and no timer of the scheduler is
\* left.
C12_Witness ==
  /\ dataMode = SIMULATION
  /\ ~isAutoUpdate
  /\ TickTimers = {} /\ CountdownTimers = {}
  /\ analysis = None /\ analysisStatus = IDLE
  /\ \E c \in cycles : c.origin = "tick" /\ c.cancelled

\* The calls of fetchLiveValues that have ended.
Ended == {k \in calls : \A c \in cycles : c.id # k.id}

\* C13 as stated: every cycle that has ended made exactly one fetch call and
\* exactly one analyze call.
C13_OneFetchOneAnalyze ==
  \A k \in Ended : k.fetchCalls = 1 /\ k.analyzeCalls = 1

\* C13, amended: every cycle makes exactly one fetch call, made when it
\* starts; the step in which its fetch settles makes one analyze call when
\* the fetch succeeded and none when it failed; no later step of the cycle
\* makes a call.
C13_OneFetchAnalyzeIfFetched ==
  [][/\ \A k \in calls' : k.fetchCalls = 1 /\ k.analyzeCalls \in {0, 1}
     /\ \A k1, k2 \in calls' : k1.id = k2.id => k1 = k2
     /\ \A c \in NewCycles : \E k \in calls' \ calls : k.id = c.id
     /\ \A c \in cycles, resp \in FetchResponses :
          (FetchThrown(c) \/ FetchSettled(c, resp))
            => \E k \in calls' :
                 /\ k.id = c.id
                 /\ k.analyzeCalls = IF FetchFailureCase(c, resp) THEN 0 ELSE 1
     /\ \A c \in cycles, k \in calls :
          (c.pc = "analyze" /\ k.id = c.id)
            => k.analyzeCalls = 1 /\ k \in calls']_vars

\* Two cycles have ended, one after a failed fetch and one after its analyze
\* call.
C13_Witness ==
  /\ cycles = {}
  /\ \E k1, k2 \in calls :
       /\ k1.fetchCalls = 1 /\ k1.analyzeCalls = 0
       /\ k2.fetchCalls = 1 /\ k2.analyzeCalls = 1

\* C14: in every state in which the scheduler is STOPPED there is no 60 s
\* interval and no countdown interval, and the countdown is 60; so a step
\* that stops the scheduler has cleared both and reset the countdown.
C14_StoppedIsQuiet ==
  ~Running => /\ TickTimers = {}
              /\ CountdownTimers = {}
              /\ nextUpdateCountdown = CountdownDefault

\* The scheduler was stopped in LIVE_SEARCH after a tick of it had started
\* a cycle, which is still in flight.
C14_Witness ==
  /\ dataMode = LIVE_SEARCH /\ ~isAutoUpdate
  /\ now > 0
  /\ TickTimers = {} /\ CountdownTimers = {}
  /\ nextUpdateCountdown = CountdownDefault
  /\ \E c \in cycles : c.origin = "tick" /\ c.cancelled

\* C15: a run of the 3 s callback drops the oldest point, appends one newly
\* generated point and starts no fetch and no analysis; and while the mode
\* is SIMULATION an analyze call is made by a manual request only, never by
\* a call of fetchLiveValues.
C15_SimulationOnlyAppends ==
  [][/\ \A t \in SimTimers :
          SimulationTick(t)
            => /\ Len(data') = Len(data)
               /\ \A i \in 1..(Len(data) - 1) : data'[i] = data[i + 1]
               /\ Last(data').seq = arrived + 1
               /\ UNCHANGED << cycles, manuals, calls >>
     /\ dataMode = SIMULATION
          => \A k \in calls, k1 \in calls' :
               k.id = k1.id => k1.analyzeCalls = k.analyzeCalls]_vars

\* C16: a step in which a cycle ends (in ERROR or otherwise) while the
\* scheduler is RUNNING changes no interval and leaves it RUNNING with its
\* 60 s interval and its countdown interval; and every run of the 60 s
\* callback starts a cycle, whatever the status.
C16_FailureKeepsScheduler ==
  [][/\ \A c \in cycles :
          (Running /\ \A c1 \in cycles' : c1.id # c.id)
            => /\ timers' = timers
               /\ Running'
               /\ Cardinality(TickTimers') = 1
               /\ Cardinality(CountdownTimers') = 1
     /\ \A t \in TickTimers :
          (Ran(t) # t /\ Ran(t) \in timers')
            => \E c \in NewCycles : c.origin = "tick"]_vars

\* The first cycle ended with a failed fetch, and after that a tick of the
\* running scheduler has started the second one.
C16_Witness ==
  /\ Running
  /\ analysisStatus = LOADING
  /\ Cardinality(TickTimers) = 1 /\ Cardinality(CountdownTimers) = 1
  /\ \E c \in cycles, k \in Ended :
       c.origin = "tick" /\ k.id < c.id /\ k.analyzeCalls = 0

\* C17: the array a call of generateHistoricalData returns has count points
\* and its walk starts from the fixed price 2350 and open interest 450000
\* (the first point is one step, at most 2.5 and 1000 contracts, from
\* them), so that the last of 5 points is within 25 of 2350; also for a call
\* that is not the first.
C17_BootstrapSeeded ==
  arrived > 0
    => /\ Len(data) = BootstrapCount
       /\ Abs(data[1].spotPrice - MOCK_START_PRICE) <= 2500
       /\ Abs(data[1].openInterest - MOCK_START_OI) <= 1000
       /\ Abs(Last(data).spotPrice - MOCK_START_PRICE) <= 25 * Scale

\* The step merges the point of cycle c (c1 is the cycle after the step).
MergeStep(c, c1) == c.id = c1.id /\ c.pc = "fetch" /\ c1.pc = "analyze"

\* C18: a live merge leaves the open interest, volume, timestamp and label
\* of every retained point as they were, and appends the point exactly as
\* fetchRealTimeMarketData returned it.
C18_MergeKeepsOtherFields ==
  [][\A c \in cycles, c1 \in cycles' :
       MergeStep(c, c1)
         => LET L == Len(data)
            IN /\ \A i \in 1..(L - 1) :
                    /\ data'[i].seq = data[i + 1].seq
                    /\ data'[i].openInterest = data[i + 1].openInterest
                    /\ data'[i].volume = data[i + 1].volume
                    /\ data'[i].timestamp = data[i + 1].timestamp
                    /\ data'[i].timeLabel = data[i + 1].timeLabel
               /\ \E resp \in FetchResponses :
                    fetchRealTimeMarketData(resp, now, arrived + 1).dataPoint
                      = Some(data'[L])]_vars

\* The point recovered from the numbers of the text (volume defaulted to
\* 1000) was merged into the bootstrapped series: the last bootstrapped
\* point keeps its own timestamp and open interest.
C18_Witness ==
  /\ mounted
  /\ arrived = Capacity + 1
  /\ data[Capacity].spotPrice = 2349995
  /\ data[Capacity].volume = 1000
  /\ data[Capacity - 1].seq = Capacity
  /\ data[Capacity - 1].timestamp = -CandleMs
  /\ data[Capacity - 1].openInterest # data[Capacity].openInterest

\* p and q are the same authoritative point (their arrival numbers apart).
SamePoint(p, q) ==
  [p EXCEPT !.seq = 0] = [q EXCEPT !.seq = 0]

\* C19 as stated: a live merge of the point that the previous merge has
\* just appended adds the offset of that previous merge to the prices of
\* the history once more.
C19_SecondMergeShiftsAgain ==
  [][\A c \in cycles, c1 \in cycles' :
       (MergeStep(c, c1) /\ SamePoint(c1.dataPoint[1], Last(data)))
         => \A i \in 1..(Len(data) - 1) :
              /\ IsRounded2(data'[i].spotPrice,
                            data[i + 1].spotPrice + lastPriceDiff)
              /\ IsRounded2(data'[i].futurePrice,
                            data[i + 1].futurePrice + lastPriceDiff)]_vars

\* C19, amended: a live merge of the point that the previous merge has just
\* appended computes the offset 0 and adds nothing: every retained price is
\* the stored price rounded to 2 decimals; the oldest point is evicted and
\* a second copy of the point appended.
C19_SecondMergeAddsNothing ==
  [][\A c \in cycles, c1 \in cycles' :
       (MergeStep(c, c1) /\ SamePoint(c1.dataPoint[1], Last(data)))
         => /\ lastPriceDiff' = 0
            /\ Len(data') = Len(data)
            /\ SamePoint(Last(data'), Last(data))
            /\ \A i \in 1..(Len(data) - 1) :
                 /\ data'[i].seq = data[i + 1].seq
                 /\ data'[i].spotPrice = Round2(data[i + 1].spotPrice)
                 /\ data'[i].futurePrice = Round2(data[i + 1].futurePrice)]_vars

\* The point with the price 2600.123 was merged twice into the bootstrapped
\* series: the last bootstrapped point was shifted to that price once, and
\* the first copy of the point was only rounded.
C19_Witness ==
  /\ mounted
  /\ arrived = Capacity + 2
  /\ lastPriceDiff = 0
  /\ data[Capacity].spotPrice = 2600123
  /\ data[Capacity - 1].spotPrice = 2600120
  /\ data[Capacity - 1].seq = Capacity + 1
  /\ data[Capacity - 1].timestamp = data[Capacity].timestamp
  /\ data[Capacity - 2].seq = Capacity
  /\ data[Capacity - 2].spotPrice = 2600120

\* C20: every run of the countdown callback takes a countdown c > 0 to
\* c - 1 and the countdown 0 to 60, and the countdown is always an integer
\* from 0 to 60.
C20_CountdownWraps ==
  [][/\ nextUpdateCountdown' \in 0..CountdownDefault
     /\ \A t \in CountdownTimers :
          CountdownTick(t)
            => nextUpdateCountdown' =
                 IF nextUpdateCountdown > 0 THEN nextUpdateCountdown - 1
                 ELSE CountdownDefault]_vars

\* The scheduler has run for 61 s with no cycle completing: the countdown
\* went down to 0 at 60 s, when the 60 s callback ran, and is back at 60.
C20_Witness ==
  /\ Running
  /\ now = 61 * CountdownMs
  /\ nextUpdateCountdown = CountdownDefault
  /\ \E t \in TickTimers : t.last = TickMs
  /\ \E t \in CountdownTimers : t.last = now
  /\ Cardinality(cycles) = 2

\* C21: a step in which a fetch succeeds replaces the option series by the
\* fetched list, an empty list included.
C21_OptionsReplacedWholesale ==
  [][\A c \in cycles, resp \in FetchResponses :
       (FetchSettled(c, resp) /\ ~FetchFailureCase(c, resp))
         => optionData' =
              fetchRealTimeMarketData(resp, now, arrived + 1).optionSeries]_vars

\* C22: after a live merge the second-to-last point has the price of the
\* new latest point rounded to 2 decimals, so that the price change the
\* render computes from the series, and the one analyzeMarketData computes
\* from its input, are zero to within half a cent.
C22_MergeLeavesNoJump ==
  [][\A c \in cycles, c1 \in cycles' :
       MergeStep(c, c1)
         => LET L == Len(data')
            IN /\ data'[L - 1].spotPrice = Round2(data'[L].spotPrice)
               /\ Abs(DisplayPriceDiff(data')) <= 5
               /\ Abs(AnalyzePriceChange(c1.input)) <= 5]_vars

\* The point with the price 2600.123 was merged and the analysis of the
\* merged series is in flight: the former latest point is at 2600.12.
C22_Witness ==
  /\ mounted
  /\ \E c \in cycles :
       /\ c.pc = "analyze"
       /\ c.input = data
       /\ Len(data) > 1
       /\ Last(data).spotPrice = 2600123
       /\ data[Len(data) - 1].spotPrice = 2600120
       /\ DisplayPriceDiff(data) = 3

\* C23: in LIVE_SEARCH, a step that stores the analysis of a cycle with
\* status SUCCESS and leaves no cycle in flight stores the analysis of the
\* cycle that merged the current latest point of the series.
C23_NewestResultStands ==
  [][\A c \in cycles, resp \in AnalyzeResponses :
       (dataMode = LIVE_SEARCH /\ AnalyzeSettled(c, resp) /\ cycles' = {})
         => c.dataPoint[1].seq = Last(data').seq]_vars

\* C24: when every call of the remote service settles, a state with status
\* LOADING is followed by a state with status SUCCESS, ERROR or IDLE.
C24_LoadingEnds ==
  (analysisStatus = LOADING) ~> (analysisStatus \in {SUCCESS, ERROR, IDLE})

\* C25: a 60 s interval or a countdown interval exists only in LIVE_SEARCH
\* with auto-refresh enabled, the 3 s interval only in SIMULATION, and never
\* both kinds at once.
C25_TimersFollowMode ==
  /\ (TickTimers # {} \/ CountdownTimers # {}) => Running
  /\ SimTimers # {} => dataMode = SIMULATION
  /\ ~(SimTimers # {} /\ (TickTimers # {} \/ CountdownTimers # {}))

\* The mode was switched to SIMULATION after a tick of the scheduler had
\* started a cycle: the 3 s interval is the only interval.
C25_Witness ==
  /\ dataMode = SIMULATION
  /\ Cardinality(SimTimers) = 1
  /\ timers = SimTimers
  /\ \E c \in cycles : c.origin = "tick"

\* Every interval that is due has run.
Settled == \A t \in timers : ~Due(t)

\* C26: while the scheduler is RUNNING (and its callbacks have run) the
\* countdown is the number of whole seconds until the 60 s callback is due
\* next; at the instant the callback has just run it may still read 0.
C26_CountdownIsTimeLeft ==
  (Running /\ Settled)
    => \A t \in TickTimers :
         LET left == (t.last + TickMs - now) \div CountdownMs
         IN \/ nextUpdateCountdown = left
            \/ nextUpdateCountdown = 0 /\ left = CountdownDefault

\* C27: a step that changes the key or the question while the scheduler is
\* RUNNING leaves one 60 s interval and one countdown interval, both
\* created in that step, and the countdown at 60; the 60 s interval always
\* calls the fetchLiveValues of the current key and question, so a cycle
\* that a tick starts fetches and analyses with them.
C27_ChangeRestartsScheduler ==
  [][/\ ((apiKey' # apiKey \/ userQuestion' # userQuestion) /\ Running)
          => /\ Running'
             /\ nextUpdateCountdown' = CountdownDefault
             /\ Cardinality(TickTimers') = 1
             /\ Cardinality(CountdownTimers') = 1
             /\ \A t \in timers' : t.last = now'
     /\ \A t \in TickTimers' :
          t.apiKey = apiKey' /\ t.userQuestion = userQuestion'
     /\ \A c \in NewCycles :
          c.origin = "tick"
            => /\ c.apiKey = apiKey /\ c.userQuestion = userQuestion
               /\ c.pc = IF getAI(apiKey, envKey) = "" THEN "fetchThrown"
                         ELSE "fetch"]_vars

\* A tick of the running scheduler has started a cycle with the key and the
\* question typed in after the page had loaded.
C27_Witness ==
  /\ Running
  /\ apiKey = "key" /\ userQuestion = "q"
  /\ now = TickMs
  /\ \E t \in TickTimers : t.last = now
  /\ \E c \in cycles :
       c.origin = "tick" /\ c.apiKey = "key" /\ c.userQuestion = "q"

====
